---- MODULE Spec2Model ----
(***************************************************************************)
(* North Hertfordshire bin collection service: the response cache, the     *)
(* HTTP handlers of app/main.py and the client of app/scraper.py.          *)
(*                                                                         *)
(* Python values are tagged records: [t |-> "none"], [t |-> "str", v |->   *)
(* <<characters>>], [t |-> "num", v |-> n], [t |-> "list", v |-> <<..>>],  *)
(* [t |-> "dict", v |-> record].  A string is the sequence of its          *)
(* characters, so that lower(), strip(), startswith() and re.match() are   *)
(* computed character by character.                                        *)
(***************************************************************************)
EXTENDS Integers, Sequences, FiniteSets, TLC

VARIABLES
    cache,      \* SimpleCache._cache: key -> [value, timestamp]
    now,        \* the wall clock read by datetime.now(), in seconds
    written,    \* history: key -> the last set(key, v) since the last clear
    storedBy,   \* history: key -> the query parameters of the request that stored it
    obs,        \* the last operation and what its caller observed
    nreq        \* number of HTTP requests served so far

vars == <<cache, now, written, storedBy, obs, nreq>>

-----------------------------------------------------------------------------
(* Bounds of the model *)

MaxTime == 2
MaxRequests == 2
MaxPresent == 2
MaxAddrs == 2

-----------------------------------------------------------------------------
(* Python values *)

None == [t |-> "none"]
Str(s) == [t |-> "str", v |-> s]
Num(n) == [t |-> "num", v |-> n]
List(l) == [t |-> "list", v |-> l]
Dict(d) == [t |-> "dict", v |-> d]

\* bool(x): None, "", [] and 0 are false; the dicts built here are never empty
Truthy(x) ==
    CASE x.t = "none" -> FALSE
      [] x.t = "str"  -> x.v # <<>>
      [] x.t = "list" -> x.v # <<>>
      [] x.t = "num"  -> x.v # 0
      [] OTHER        -> TRUE

-----------------------------------------------------------------------------
(* str methods, character by character *)

LowerChar(c) ==
    CASE c = "A" -> "a" [] c = "B" -> "b" [] c = "C" -> "c" [] c = "D" -> "d"
      [] c = "E" -> "e" [] c = "F" -> "f" [] c = "G" -> "g" [] c = "H" -> "h"
      [] c = "I" -> "i" [] c = "J" -> "j" [] c = "K" -> "k" [] c = "L" -> "l"
      [] c = "M" -> "m" [] c = "N" -> "n" [] c = "O" -> "o" [] c = "P" -> "p"
      [] c = "Q" -> "q" [] c = "R" -> "r" [] c = "S" -> "s" [] c = "T" -> "t"
      [] c = "U" -> "u" [] c = "V" -> "v" [] c = "W" -> "w" [] c = "X" -> "x"
      [] c = "Y" -> "y" [] c = "Z" -> "z"
      [] OTHER -> c

UpperChar(c) ==
    CASE c = "a" -> "A" [] c = "b" -> "B" [] c = "c" -> "C" [] c = "d" -> "D"
      [] c = "e" -> "E" [] c = "f" -> "F" [] c = "g" -> "G" [] c = "h" -> "H"
      [] c = "i" -> "I" [] c = "j" -> "J" [] c = "k" -> "K" [] c = "l" -> "L"
      [] c = "m" -> "M" [] c = "n" -> "N" [] c = "o" -> "O" [] c = "p" -> "P"
      [] c = "q" -> "Q" [] c = "r" -> "R" [] c = "s" -> "S" [] c = "t" -> "T"
      [] c = "u" -> "U" [] c = "v" -> "V" [] c = "w" -> "W" [] c = "x" -> "X"
      [] c = "y" -> "Y" [] c = "z" -> "Z"
      [] OTHER -> c

Lower(s) == [i \in 1..Len(s) |-> LowerChar(s[i])]
Upper(s) == [i \in 1..Len(s) |-> UpperChar(s[i])]

IsSpace(c) == c \in {" ", "\n", "\t"}
IsDigit(c) == c \in {"0", "1", "2", "3", "4", "5", "6", "7", "8", "9"}

RECURSIVE LStrip(_)
LStrip(s) == IF s # <<>> /\ IsSpace(Head(s)) THEN LStrip(Tail(s)) ELSE s

RECURSIVE RStrip(_)
RStrip(s) ==
    IF s # <<>> /\ IsSpace(s[Len(s)]) THEN RStrip(SubSeq(s, 1, Len(s) - 1)) ELSE s

Strip(s) == RStrip(LStrip(s))

\* s.replace(" ", "")
RemoveSpaces(s) == SelectSeq(s, LAMBDA c : c # " ")

StartsWith(s, p) == Len(p) <= Len(s) /\ SubSeq(s, 1, Len(p)) = p

-----------------------------------------------------------------------------
(* JSON objects of the upstream service: a field is a value or Absent *)

Absent == [t |-> "absent"]

\* dict.get(field, default): the default only when the key is missing
Get(d, field, default) == IF d[field].t = "absent" THEN default ELSE d[field]

\* a or b
PyOr(a, b) == IF Truthy(a) THEN a ELSE b

DigitChar(n) ==
    CASE n = 0 -> "0" [] n = 1 -> "1" [] n = 2 -> "2" [] n = 3 -> "3"
      [] n = 4 -> "4" [] n = 5 -> "5" [] n = 6 -> "6" [] n = 7 -> "7"
      [] n = 8 -> "8" [] n = 9 -> "9"

DigitVal(c) ==
    CASE c = "0" -> 0 [] c = "1" -> 1 [] c = "2" -> 2 [] c = "3" -> 3
      [] c = "4" -> 4 [] c = "5" -> 5 [] c = "6" -> 6 [] c = "7" -> 7
      [] c = "8" -> 8 [] c = "9" -> 9

RECURSIVE Decimal(_)
Decimal(n) == IF n < 10 THEN <<DigitChar(n)>> ELSE Decimal(n \div 10) \o <<DigitChar(n % 10)>>

\* str(x) of a JSON string or a non-negative JSON number
PyStr(x) == IF x.t = "num" THEN Decimal(x.v) ELSE x.v

-----------------------------------------------------------------------------
(* SimpleCache (main.py) *)

\* CACHE_TTL_SECONDS, read from the environment: two ticks of the clock here
TTL == 2

\* SimpleCache.get with "<=" for "<": an entry lives one tick too long
SimpleCache_get_Late(c, key, t) ==
    IF key \in DOMAIN c
    THEN IF t - c[key].timestamp <= TTL
         THEN [ret |-> c[key].value, store |-> c]
         ELSE [ret |-> None, store |-> [k \in DOMAIN c \ {key} |-> c[k]]]
    ELSE [ret |-> None, store |-> c]

\* SimpleCache.get: the value returned and the store afterwards
SimpleCache_get(c, key, t) ==
    IF key \in DOMAIN c
    THEN IF t - c[key].timestamp < TTL
         THEN [ret |-> c[key].value, store |-> c]
         ELSE [ret |-> None, store |-> [k \in DOMAIN c \ {key} |-> c[k]]]
    ELSE [ret |-> None, store |-> c]

SimpleCache_set(c, key, value, t) ==
    [k \in DOMAIN c \cup {key} |->
        IF k = key THEN [value |-> value, timestamp |-> t] ELSE c[k]]

SimpleCache_clear(c) == << >>

EmptyCache == << >>

-----------------------------------------------------------------------------
(* The cache on its own: set, get, clear and the clock *)

CacheKeys == {<<"k">>, <<"j">>}
CacheValues == {Str(<<"a">>), Str(<<"b">>), List(<<>>)}

NoObs == [op |-> "none"]

InitCache ==
    /\ cache = EmptyCache
    /\ now = 0
    /\ written = [k \in CacheKeys |-> None]
    /\ storedBy = << >>
    /\ obs = NoObs
    /\ nreq = 0

CacheSet(k, v) ==
    /\ cache' = SimpleCache_set(cache, k, v, now)
    /\ written' = [written EXCEPT ![k] = [t |-> "set", value |-> v, at |-> now]]
    /\ obs' = [op |-> "set", key |-> k, at |-> now, ret |-> None]
    /\ UNCHANGED <<now, storedBy, nreq>>

CacheGet(k) ==
    /\ cache' = SimpleCache_get(cache, k, now).store
    /\ obs' = [op |-> "get", key |-> k, at |-> now,
               ret |-> SimpleCache_get(cache, k, now).ret]
    /\ UNCHANGED <<now, written, storedBy, nreq>>

CacheClear ==
    /\ cache' = SimpleCache_clear(cache)
    /\ written' = [k \in CacheKeys |-> None]
    /\ obs' = [op |-> "clear"]
    /\ UNCHANGED <<now, storedBy, nreq>>

Tick ==
    /\ now < MaxTime
    /\ now' = now + 1
    /\ UNCHANGED <<cache, written, storedBy, obs, nreq>>

NextCache ==
    \/ \E k \in CacheKeys, v \in CacheValues : CacheSet(k, v)
    \/ \E k \in CacheKeys : CacheGet(k)
    \/ CacheClear
    \/ Tick

SpecCache == InitCache /\ [][NextCache]_vars

\* C1: a get(k) returns the value of the most recent set(k, v) since the last
\* clear exactly when that set is younger than the ttl at the time of the get
\* (obs.at - storedAt < ttl);
\* otherwise it is a miss, and after the miss no entry for k is left in the
\* store, so that the next set(k, v') is what a following get(k) returns.
C1_GetReturnsFreshValue ==
    obs.op = "get" =>
        LET w == written[obs.key] IN
        IF w.t = "set" /\ obs.at - w.at < TTL
        THEN /\ obs.ret = w.value
             /\ obs.key \in DOMAIN cache
             /\ cache[obs.key] = [value |-> w.value, timestamp |-> w.at]
        ELSE /\ obs.ret = None
             /\ obs.key \notin DOMAIN cache

\* an expired entry was read: a miss, and the entry is gone
C1_Witness ==
    /\ obs.op = "get"
    /\ written[obs.key].t = "set"
    /\ obs.at - written[obs.key].at >= TTL
    /\ obs.ret = None
    /\ obs.key \notin DOMAIN cache

-----------------------------------------------------------------------------
(* scraper.py: errors *)

\* raise NorthHertsBinCollectionError(message): the kind is the raise site
Raise(kind) == [ok |-> FALSE, exc |-> "NorthHertsBinCollectionError", kind |-> kind]

\* an exception of another class escaping the call
Escape(exc) == [ok |-> FALSE, exc |-> exc, kind |-> "Internal"]

Return(val) == [ok |-> TRUE, val |-> val]

-----------------------------------------------------------------------------
(* scraper.py: addresses *)

\* the upstream address endpoint: a failure (network error, timeout, non-2xx
\* status: requests.RequestException) or a JSON body
UpstreamFailure == [fail |-> TRUE]
UpstreamBody(data) == [fail |-> FALSE, data |-> data]

\* NorthHertsBinCollection._normalize_postcode
NormalizePostcode(postcode) == RemoveSpaces(Strip(Upper(postcode)))

\* one item of data["addresses"] to an Address
AddressOfItem(item, postcode) ==
    [uprn     |-> PyStr(Get(item, "uprn", Str(<<>>))),
     address  |-> PyOr(Get(item, "fullAddress", Str(<<>>)),
                       Get(item, "addressLine1", Str(<<>>))).v,
     postcode |-> Get(item, "postcode", Str(postcode)).v]

\* NorthHertsBinCollection.lookup_addresses, given the upstream's answer
LookupAddresses(postcode, resp) ==
    LET pc == NormalizePostcode(postcode) IN
    IF resp.fail
    THEN Raise("UpstreamUnavailable")
    ELSE LET items == Get(resp.data, "addresses", List(<<>>)).v IN
         Return([i \in 1..Len(items) |-> AddressOfItem(items[i], pc)])

\* the house-number test of find_uprn on one address
HouseMatches(address, house_number) ==
    LET addr_lower == Lower(address) IN
    \/ StartsWith(addr_lower, house_number \o <<" ">>)
    \/ StartsWith(addr_lower, house_number \o <<",">>)

RECURSIVE FirstMatch(_, _, _)
FirstMatch(addresses, house_number, i) ==
    IF i > Len(addresses) THEN None
    ELSE IF HouseMatches(addresses[i].address, house_number)
         THEN Str(addresses[i].uprn)
         ELSE FirstMatch(addresses, house_number, i + 1)

\* find_uprn matching the bare prefix: "1" also selects "10 Smith Street"
FindUprnBarePrefix(postcode, house_number, resp) ==
    LET looked == LookupAddresses(postcode, resp) IN
    IF ~looked.ok THEN looked
    ELSE LET hn == Strip(Lower(house_number))
             hit == {i \in 1..Len(looked.val) :
                        StartsWith(Lower(looked.val[i].address), hn)}
         IN  Return(IF hit = {} THEN None
                    ELSE Str(looked.val[CHOOSE i \in hit : \A j \in hit : i <= j].uprn))

\* NorthHertsBinCollection.find_uprn, given the upstream's answer
FindUprn(postcode, house_number, resp) ==
    LET looked == LookupAddresses(postcode, resp) IN
    IF ~looked.ok THEN looked
    ELSE Return(FirstMatch(looked.val, Strip(Lower(house_number)), 1))

-----------------------------------------------------------------------------
(* The address resolver on its own: find_uprn over upstream answers *)

Item(uprn, fullAddress, addressLine1, postcode) ==
    [uprn |-> uprn, fullAddress |-> fullAddress,
     addressLine1 |-> addressLine1, postcode |-> postcode]

AddressItems ==
    { Item(Str(<<"1", "1">>), Str(<<"1", "0", " ", "S">>), Absent, Absent),
      Item(Str(<<"1", "2">>), Str(<<"1", " ", "S">>), Absent, Absent),
      Item(Num(3), Str(<<"1", ",", "S">>), Absent, Absent),
      Item(Str(<<"1", "4">>), Absent, Str(<<"1", "A", " ", "S">>), Absent),
      Item(Str(<<"1", "5">>), Str(<<>>), Str(<<"1", " ", "S">>), Str(<<"S", "G">>)),
      Item(Absent, Str(<<"S", " ", "1">>), Absent, Absent),
      Item(Str(<<"x", "7">>), Str(<<"1", "a", ",", "S">>), Absent, Absent) }

HouseNumbers ==
    { <<"1">>, <<" ", "1", " ">>, <<"1", "a">>, <<"1", "A">>, <<"1", "0">>,
      <<"9", "9">>, <<"s">>, <<>> }

Postcodes == { <<"s", "g", " ", "1">>, <<"S", "G", "1">> }

RECURSIVE SeqsUpTo(_, _)
SeqsUpTo(S, n) ==
    IF n = 0 THEN { <<>> }
    ELSE LET shorter == SeqsUpTo(S, n - 1) IN
         shorter \cup { Append(q, x) : q \in shorter, x \in S }

AddressResponses ==
    { UpstreamFailure, UpstreamBody([addresses |-> Absent]) }
      \cup { UpstreamBody([addresses |-> List(l)]) : l \in SeqsUpTo(AddressItems, MaxAddrs) }

InitFind ==
    /\ cache = EmptyCache
    /\ now = 0
    /\ written = << >>
    /\ storedBy = << >>
    /\ nreq = 0
    /\ \E postcode \in Postcodes, house_number \in HouseNumbers, resp \in AddressResponses :
          obs = [op |-> "call", postcode |-> postcode,
                 house_number |-> house_number, resp |-> resp]

CallFindUprn ==
    /\ obs.op = "call"
    /\ obs' = [op |-> "find_uprn", postcode |-> obs.postcode,
               house_number |-> obs.house_number, resp |-> obs.resp,
               ret |-> FindUprn(obs.postcode, obs.house_number, obs.resp)]
    /\ UNCHANGED <<cache, now, written, storedBy, nreq>>

NextFind == CallFindUprn

SpecFind == InitFind /\ [][NextFind]_vars

\* the display texts and identifiers of the addresses the upstream returned, in
\* its order (full address, else the first address line)
UpstreamAddresses(resp) ==
    LET items == IF resp.data.addresses.t = "absent" THEN <<>> ELSE resp.data.addresses.v IN
    [i \in 1..Len(items) |->
        [text |-> IF items[i].fullAddress.t = "str" /\ items[i].fullAddress.v # <<>>
                  THEN items[i].fullAddress.v
                  ELSE IF items[i].addressLine1.t = "str" THEN items[i].addressLine1.v
                  ELSE <<>>,
         uprn |-> IF items[i].uprn.t = "absent" THEN <<>>
                  ELSE IF items[i].uprn.t = "num" THEN Decimal(items[i].uprn.v)
                  ELSE items[i].uprn.v]]

\* C8: find_uprn returns the identifier of the first address, in upstream order,
\* whose lower-cased display text starts with the lower-cased, trimmed house
\* number followed by a space or a comma; with no such address it returns None
\* and raises nothing.
C8_FirstPrefixMatch ==
    (obs.op = "find_uprn" /\ ~obs.resp.fail) =>
        LET addrs == UpstreamAddresses(obs.resp)
            hn == Strip(Lower(obs.house_number))
            sat == { i \in 1..Len(addrs) :
                       \E sep \in {" ", ","} :
                           LET want == hn \o <<sep>> IN
                           /\ Len(addrs[i].text) >= Len(want)
                           /\ \A j \in 1..Len(want) : LowerChar(addrs[i].text[j]) = want[j] }
        IN  /\ obs.ret.ok
            /\ IF sat = {} THEN obs.ret.val = None
               ELSE \E i \in sat :
                      /\ \A j \in sat : i <= j
                      /\ obs.ret.val = Str(addrs[i].uprn)

\* house number "1" against ["10 S", "1 S"]: the second address is selected
C8_Witness ==
    /\ obs.op = "find_uprn"
    /\ ~obs.resp.fail
    /\ obs.house_number = <<" ", "1", " ">>
    /\ obs.resp.data.addresses.t = "list"
    /\ Len(obs.resp.data.addresses.v) = 2
    /\ obs.resp.data.addresses.v[1].fullAddress = Str(<<"1", "0", " ", "S">>)
    /\ obs.resp.data.addresses.v[2].fullAddress = Str(<<"1", " ", "S">>)
    /\ obs.ret = Return(Str(<<"1", "2">>))

\* no address satisfies the rule: None, no exception
C8_WitnessNotFound ==
    /\ obs.op = "find_uprn"
    /\ ~obs.resp.fail
    /\ obs.house_number = <<"9", "9">>
    /\ obs.resp.data.addresses.t = "list"
    /\ Len(obs.resp.data.addresses.v) = 2
    /\ obs.ret = Return(None)

-----------------------------------------------------------------------------
(* datetime.strptime(date_str, "%Y-%m-%dT%H:%M:%S") *)

RECURSIVE DigitsAt(_, _)
\* the length of the run of digits of s that starts at position i
DigitsAt(s, i) == IF i <= Len(s) /\ IsDigit(s[i]) THEN 1 + DigitsAt(s, i + 1) ELSE 0

RECURSIVE NumVal(_, _, _)
\* the value of the n digits of s that start at position i
NumVal(s, i, n) ==
    IF n = 0 THEN 0 ELSE 10 * NumVal(s, i, n - 1) + DigitVal(s[i + n - 1])

IsLeap(y) == (y % 4 = 0 /\ y % 100 # 0) \/ y % 400 = 0

DaysInMonth(y, m) ==
    CASE m \in {1, 3, 5, 7, 8, 10, 12} -> 31
      [] m \in {4, 6, 9, 11} -> 30
      [] OTHER -> IF IsLeap(y) THEN 29 ELSE 28

NoField == [ok |-> FALSE]

\* a numeric directive at position i: a run of minw..maxw digits with a value in
\* lo..hi (the directive's regular expression, followed by a literal or the end)
Field(s, i, minw, maxw, lo, hi) ==
    LET n == DigitsAt(s, i) IN
    IF n >= minw /\ n <= maxw /\ NumVal(s, i, n) >= lo /\ NumVal(s, i, n) <= hi
    THEN [ok |-> TRUE, val |-> NumVal(s, i, n), next |-> i + n]
    ELSE NoField

\* %d: as Field, or a space and one digit 1..9
DayField(s, i) ==
    IF i <= Len(s) /\ s[i] = " "
    THEN IF DigitsAt(s, i + 1) = 1 /\ NumVal(s, i + 1, 1) >= 1
         THEN [ok |-> TRUE, val |-> NumVal(s, i + 1, 1), next |-> i + 2]
         ELSE NoField
    ELSE Field(s, i, 1, 2, 1, 31)

\* a literal of the format at position i (the match ignores case)
Literal(s, i, c) == i <= Len(s) /\ LowerChar(s[i]) = LowerChar(c)

\* strptime: the datetime <<Y, m, d, H, M, S>>, or ValueError (ok = FALSE) when
\* the string does not match the format, text remains, or the day is not a day
\* of the month
Strptime(s) ==
    LET Y == Field(s, 1, 4, 4, 1, 9999) IN
    IF ~Y.ok \/ ~Literal(s, Y.next, "-") THEN NoField ELSE
    LET m == Field(s, Y.next + 1, 1, 2, 1, 12) IN
    IF ~m.ok \/ ~Literal(s, m.next, "-") THEN NoField ELSE
    LET d == DayField(s, m.next + 1) IN
    IF ~d.ok \/ ~Literal(s, d.next, "T") THEN NoField ELSE
    LET H == Field(s, d.next + 1, 1, 2, 0, 23) IN
    IF ~H.ok \/ ~Literal(s, H.next, ":") THEN NoField ELSE
    LET M == Field(s, H.next + 1, 1, 2, 0, 59) IN
    IF ~M.ok \/ ~Literal(s, M.next, ":") THEN NoField ELSE
    LET S == Field(s, M.next + 1, 1, 2, 0, 59) IN
    IF ~S.ok \/ S.next # Len(s) + 1 THEN NoField
    ELSE IF d.val > DaysInMonth(Y.val, m.val) THEN NoField
    ELSE [ok |-> TRUE, val |-> <<Y.val, m.val, d.val, H.val, M.val, S.val>>]

RECURSIVE DtLessFrom(_, _, _)
DtLessFrom(a, b, i) ==
    IF i > Len(a) THEN FALSE
    ELSE IF a[i] # b[i] THEN a[i] < b[i]
    ELSE DtLessFrom(a, b, i + 1)

\* datetime a < datetime b
DtLess(a, b) == DtLessFrom(a, b, 1)

-----------------------------------------------------------------------------
(* scraper.py: the collections parser of get_collections *)

NumSlots == 8

FoodCaddy == <<"f", "o", "o", "d", " ", "c", "a", "d", "d", "y">>
Unknown == <<"U", "n", "k", "n", "o", "w", "n">>

excluded_bins == { FoodCaddy }

Skip == [t |-> "skip"]
Event(bin_type, collection_date) ==
    [t |-> "event", bin_type |-> bin_type, collection_date |-> collection_date]
Throw(exc) == [t |-> "raise", exc |-> exc]

\* the loop body with the exclusion test comparing the description as written
ParseSlotCaseSensitive(container) ==
    IF container.t \in {"absent", "none"} THEN Skip
    ELSE IF container.t # "dict" THEN Throw("AttributeError")
    ELSE LET date_str == Get(container.v, "collectionDate", Str(<<>>)) IN
         IF ~Truthy(date_str) THEN Skip
         ELSE LET bin_type == Get(container.v, "containerDescription", Str(Unknown)) IN
              IF bin_type.t # "str" THEN Throw("AttributeError")
              ELSE IF bin_type.v \in excluded_bins THEN Skip
              ELSE IF date_str.t # "str" THEN Skip
              ELSE IF ~Strptime(date_str.v).ok THEN Skip
              ELSE Event(bin_type.v, Strptime(date_str.v).val)

\* the body of the loop over the slots, for the value of one slot: an event, a
\* skip (continue, or a ValueError/TypeError caught), or an exception that the
\* except clause does not catch
ParseSlot(container) ==
    IF container.t \in {"absent", "none"} THEN Skip
    \* container.get on a value that is no object
    ELSE IF container.t # "dict" THEN Throw("AttributeError")
    ELSE LET date_str == Get(container.v, "collectionDate", Str(<<>>)) IN
         IF ~Truthy(date_str) THEN Skip
         ELSE LET bin_type == Get(container.v, "containerDescription", Str(Unknown)) IN
              \* bin_type.lower() on None or a number
              IF bin_type.t # "str" THEN Throw("AttributeError")
              ELSE IF Lower(bin_type.v) \in excluded_bins THEN Skip
              \* strptime: TypeError for a non-string, ValueError for a bad one
              ELSE IF date_str.t # "str" THEN Skip
              ELSE IF ~Strptime(date_str.v).ok THEN Skip
              ELSE Event(bin_type.v, Strptime(date_str.v).val)

RECURSIVE ParseSlots(_, _, _)

\* one turn of the loop, for what its body did: append, continue, or raise
SlotParsed(r, waste_data, i, collections) ==
    CASE r.t = "raise" -> Escape(r.exc)
      [] r.t = "event" ->
           ParseSlots(waste_data, i + 1,
                      Append(collections, [bin_type |-> r.bin_type,
                                           collection_date |-> r.collection_date]))
      [] OTHER -> ParseSlots(waste_data, i + 1, collections)

\* for i in range(1, 9): the events collected, or the exception that ends it
ParseSlots(waste_data, i, collections) ==
    IF i > NumSlots THEN Return(collections)
    ELSE SlotParsed(ParseSlot(waste_data[i]), waste_data, i, collections)

RECURSIVE InsertBefore(_, _)
\* insertion in front of the elements with an equal date: not stable
InsertBefore(sorted, e) ==
    IF sorted = <<>> THEN <<e>>
    ELSE IF DtLess(Head(sorted).collection_date, e.collection_date)
         THEN <<Head(sorted)>> \o InsertBefore(Tail(sorted), e)
         ELSE <<e>> \o sorted

RECURSIVE InsertStable(_, _)
\* e goes behind every element whose date is not later than its own
InsertStable(sorted, e) ==
    IF sorted = <<>> THEN <<e>>
    ELSE IF DtLess(e.collection_date, Head(sorted).collection_date)
         THEN <<e>> \o sorted
         ELSE <<Head(sorted)>> \o InsertStable(Tail(sorted), e)

RECURSIVE SortByDate(_)
\* collections.sort(key=lambda x: x.collection_date): stable, ascending
SortByDate(collections) ==
    IF collections = <<>> THEN <<>>
    ELSE InsertStable(SortByDate(SubSeq(collections, 1, Len(collections) - 1)),
                      collections[Len(collections)])

\* line 217, unless the loop raised
Sorted(parsed) == IF parsed.ok THEN Return(SortByDate(parsed.val)) ELSE parsed

\* lines 182-219 of get_collections: parse the payload, then sort
ParseCollections(waste_data) == Sorted(ParseSlots(waste_data, 1, <<>>))

-----------------------------------------------------------------------------
(* scraper.py: NorthHertsBinCollection.get_collections *)

\* re.match(r"^\d+$", s): one or more digits; "$" matches at the end of the
\* string and also just before a newline that ends the string
ReMatchDigits(s) ==
    \/ Len(s) >= 1 /\ \A i \in 1..Len(s) : IsDigit(s[i])
    \/ Len(s) >= 2 /\ s[Len(s)] = "\n" /\ \A i \in 1..(Len(s) - 1) : IsDigit(s[i])

NoSlots == [i \in 1..NumSlots |-> Absent]

\* data.get("wasteCollectionDates", {}), and waste_data.get(container_key) for
\* each of the keys
WasteData(data) ==
    IF data.wasteCollectionDates.t = "absent" THEN NoSlots ELSE data.wasteCollectionDates.v

\* the outcome of a call with what it did on the way: the identifier it
\* validated (None when it did not get that far), the address lookups and the
\* collection fetches it sent upstream
Outcome(ret, ident, lookups, fetches) ==
    [ret |-> ret, ident |-> ident, lookups |-> lookups, fetches |-> fetches]

\* lines 167-219, for the identifier given or resolved
ValidateFetchParse(uprn, lookups, collResp) ==
    IF ~ReMatchDigits(uprn.v)
    THEN Outcome(Raise("InvalidIdentifier"), uprn, lookups, 0)
    ELSE IF collResp.fail
    THEN Outcome(Raise("UpstreamUnavailable"), uprn, lookups, 1)
    ELSE Outcome(ParseCollections(WasteData(collResp.data)), uprn, lookups, 1)

\* NorthHertsBinCollection.get_collections, given the upstream's answers
GetCollections(uprn, postcode, house_number, addrResp, collResp) ==
    IF ~Truthy(uprn)
    THEN IF ~Truthy(postcode) \/ ~Truthy(house_number)
         THEN Outcome(Raise("InvalidRequest"), None, 0, 0)
         ELSE LET found == FindUprn(postcode.v, house_number.v, addrResp) IN
              IF ~found.ok THEN Outcome(found, None, 1, 0)
              ELSE IF ~Truthy(found.val)
              THEN Outcome(Raise("AddressNotFound"), found.val, 1, 0)
              ELSE ValidateFetchParse(found.val, 1, collResp)
    ELSE ValidateFetchParse(uprn, 0, collResp)

-----------------------------------------------------------------------------
(* The collections parser on its own: get_collections over upstream payloads *)

Date06 == <<"2", "0", "2", "5", "-", "0", "1", "-", "0", "6", "T", "0", "0", ":", "0", "0", ":", "0", "0">>
Date13 == <<"2", "0", "2", "5", "-", "0", "1", "-", "1", "3", "T", "0", "0", ":", "0", "0", ":", "0", "0">>
DateFeb30 == <<"2", "0", "2", "5", "-", "0", "2", "-", "3", "0", "T", "0", "0", ":", "0", "0", ":", "0", "0">>

Container(collectionDate, containerDescription) ==
    Dict([collectionDate |-> collectionDate, containerDescription |-> containerDescription])

SlotValues ==
    { Container(Str(Date13), Str(<<"R", "e", "f", "u", "s", "e">>)),
      Container(Str(Date06), Str(<<"R", "e", "c", "y", "c", "l", "i", "n", "g">>)),
      Container(Str(Date13), Absent),
      Container(Str(Date06), Str(<<"F", "O", "O", "D", " ", "C", "a", "d", "d", "y">>)),
      Container(Str(DateFeb30), Str(<<"G", "a", "r", "d", "e", "n">>)),
      Container(Str(Date13), Str(<<>>)),
      Container(Str(Date06), None),
      Container(Str(<<>>), Str(<<"R", "e", "f", "u", "s", "e">>)),
      Container(Num(5), Str(<<"R", "e", "f", "u", "s", "e">>)),
      Str(<<"n", "/", "a">>),
      None }

\* the sets of at most n slots
SlotSets(n) == { Q \in SUBSET (1..NumSlots) : Cardinality(Q) <= n }

\* the payload with the slots of P present, as f gives them
Payload(P, f) == [i \in 1..NumSlots |-> IF i \in P THEN f[i] ELSE Absent]

GivenUprn == Str(<<"1", "2", "3">>)

InitParse ==
    /\ cache = EmptyCache
    /\ now = 0
    /\ written = << >>
    /\ storedBy = << >>
    /\ nreq = 0
    /\ \E P \in SlotSets(MaxPresent) : \E f \in [P -> SlotValues] :
          obs = [op |-> "call", waste_data |-> Payload(P, f)]

CallGetCollections ==
    /\ obs.op = "call"
    /\ obs' = [op |-> "get_collections", waste_data |-> obs.waste_data,
               out |-> GetCollections(GivenUprn, None, None, UpstreamFailure,
                          UpstreamBody([wasteCollectionDates |-> Dict(obs.waste_data)]))]
    /\ UNCHANGED <<cache, now, written, storedBy, nreq>>

NextParse == CallGetCollections

SpecParse == InitParse /\ [][NextParse]_vars

Returned == obs.op = "get_collections" /\ obs.out.ret.ok

\* the slots that yield an event, in ascending slot index
RECURSIVE EventsFrom(_, _)
EventsFrom(waste_data, i) ==
    IF i > NumSlots THEN <<>>
    ELSE LET r == ParseSlot(waste_data[i]) IN
         (IF r.t = "event"
          THEN <<[bin_type |-> r.bin_type, collection_date |-> r.collection_date]>>
          ELSE <<>>) \o EventsFrom(waste_data, i + 1)

OnDate(events, d) == SelectSeq(events, LAMBDA e : e.collection_date = d)

\* C4: the sequence returned is sorted ascending by collection date, and the
\* events of one and the same date appear in ascending order of their slots.
C4_SortedStable ==
    Returned =>
        LET out == obs.out.ret.val
            evs == EventsFrom(obs.waste_data, 1)
        IN  /\ Len(out) = Len(evs)
            /\ \A p, q \in 1..Len(out) :
                   p < q => ~DtLess(out[q].collection_date, out[p].collection_date)
            /\ \A i \in 1..Len(evs) :
                   OnDate(out, evs[i].collection_date) = OnDate(evs, evs[i].collection_date)

\* two slots of one date with different descriptions are returned in the order
\* of their slots
C4_Witness ==
    /\ Returned
    /\ Len(obs.out.ret.val) >= 2
    /\ \E i, j \in 1..NumSlots :
          /\ i < j
          /\ ParseSlot(obs.waste_data[i]).t = "event"
          /\ ParseSlot(obs.waste_data[j]).t = "event"
          /\ ParseSlot(obs.waste_data[i]).collection_date = ParseSlot(obs.waste_data[j]).collection_date
          /\ ParseSlot(obs.waste_data[i]).bin_type # ParseSlot(obs.waste_data[j]).bin_type
          /\ obs.out.ret.val[1].bin_type = ParseSlot(obs.waste_data[i]).bin_type
          /\ obs.out.ret.val[2].bin_type = ParseSlot(obs.waste_data[j]).bin_type

\* a slot that is malformed: no object (and not null), a description that is
\* no string, a date that is no string, or a date string that is no date-time
\* of the format
Malformed(container) ==
    /\ container.t \notin {"absent", "none"}
    /\ \/ container.t # "dict"
       \/ container.v.containerDescription.t \notin {"absent", "str"}
       \/ container.v.collectionDate.t \notin {"absent", "none", "str"}
       \/ /\ container.v.collectionDate.t = "str"
          /\ container.v.collectionDate.v # <<>>
          /\ ~Strptime(container.v.collectionDate.v).ok

\* C5: a malformed slot never aborts the parse: with one of the slots malformed,
\* get_collections still returns, with exactly the events of the well-formed,
\* non-excluded slots, and raises nothing.
C5_MalformedSlotSkipped ==
    (/\ obs.op = "get_collections"
     /\ Cardinality({ i \in 1..NumSlots : Malformed(obs.waste_data[i]) }) = 1)
    => /\ obs.out.ret.ok
       /\ Len(obs.out.ret.val) =
            Cardinality({ i \in 1..NumSlots :
                            /\ ~Malformed(obs.waste_data[i])
                            /\ ParseSlot(obs.waste_data[i]).t = "event" })

\* C6: no event returned has a bin type equal to "food caddy" ignoring case, and
\* a slot with a date and no description yields an event of type "Unknown".
C6_FoodCaddyExcluded ==
    Returned =>
        LET out == obs.out.ret.val IN
        /\ \A p \in 1..Len(out) : Lower(out[p].bin_type) # FoodCaddy
        /\ \A i \in 1..NumSlots :
              LET c == obs.waste_data[i] IN
              (/\ c.t = "dict"
               /\ c.v.containerDescription.t = "absent"
               /\ c.v.collectionDate.t = "str"
               /\ Strptime(c.v.collectionDate.v).ok)
              => \E p \in 1..Len(out) :
                    /\ out[p].bin_type = Unknown
                    /\ out[p].collection_date = Strptime(c.v.collectionDate.v).val

\* a "FOOD Caddy" slot and a slot without description: one event, "Unknown"
C6_Witness ==
    /\ Returned
    /\ \E i, j \in 1..NumSlots :
          /\ obs.waste_data[i].t = "dict"
          /\ obs.waste_data[i].v.containerDescription.t = "str"
          /\ Lower(obs.waste_data[i].v.containerDescription.v) = FoodCaddy
          /\ obs.waste_data[i].v.containerDescription.v # FoodCaddy
          /\ obs.waste_data[j].t = "dict"
          /\ obs.waste_data[j].v.containerDescription.t = "absent"
    /\ Len(obs.out.ret.val) = 1
    /\ obs.out.ret.val[1].bin_type = Unknown

ValidCalendarDate(dt) ==
    /\ dt[1] >= 1
    /\ dt[2] \in 1..12
    /\ dt[3] >= 1
    /\ dt[3] <= (IF dt[2] = 2 THEN (IF IsLeap(dt[1]) THEN 29 ELSE 28)
                 ELSE IF dt[2] \in {4, 6, 9, 11} THEN 30 ELSE 31)

\* C10: every event returned has a non-empty bin type and a valid calendar
\* collection date.
C10_NonEmptyBinType ==
    Returned =>
        \A p \in 1..Len(obs.out.ret.val) :
            /\ obs.out.ret.val[p].bin_type # <<>>
            /\ ValidCalendarDate(obs.out.ret.val[p].collection_date)

-----------------------------------------------------------------------------
(* scraper.py: BinCollection.to_dict and Address.to_dict *)

\* datetime.now() for the clock value t: the clock counts the seconds from
\* 2025-01-10T00:00:00 on
NowDateTime(t) == <<2025, 1, 10, 0, t \div 60, t % 60>>

Pad2(n) == <<DigitChar(n \div 10), DigitChar(n % 10)>>
Pad4(n) == Pad2(n \div 100) \o Pad2(n % 100)

\* datetime.isoformat(), microsecond 0
IsoFormat(dt) ==
    Pad4(dt[1]) \o <<"-">> \o Pad2(dt[2]) \o <<"-">> \o Pad2(dt[3]) \o <<"T">>
        \o Pad2(dt[4]) \o <<":">> \o Pad2(dt[5]) \o <<":">> \o Pad2(dt[6])

RECURSIVE DaysBeforeMonth(_, _)
DaysBeforeMonth(y, m) ==
    IF m = 1 THEN 0 ELSE DaysBeforeMonth(y, m - 1) + DaysInMonth(y, m - 1)

\* date.toordinal()
Ordinal(dt) ==
    LET y == dt[1] - 1 IN
    y * 365 + y \div 4 - y \div 100 + y \div 400 + DaysBeforeMonth(dt[1], dt[2]) + dt[3]

\* BinCollection.to_dict at clock value t; the formatted date "%A, %d %B %Y" is
\* kept as its parts <<weekday (Monday = 0), day, month, year>>
BinToDict(c, t) ==
    [bin_type |-> c.bin_type,
     collection_date |-> IsoFormat(c.collection_date),
     collection_date_formatted |->
        <<(Ordinal(c.collection_date) + 6) % 7, c.collection_date[3],
          c.collection_date[2], c.collection_date[1]>>,
     days_until |-> Ordinal(c.collection_date) - Ordinal(NowDateTime(t))]

\* Address.to_dict
AddressToDict(a) == [uprn |-> a.uprn, address |-> a.address, postcode |-> a.postcode]

-----------------------------------------------------------------------------
(* main.py: the handlers *)

\* what a handler did: the response, the cache afterwards, and on the way the
\* cache key it used (None when it computed none), whether the cache answered,
\* the error kind, the identifier validated, and the upstream calls it sent
Handled(status, body, store, key, hit, kind, ident, lookups, fetches) ==
    [status |-> status, body |-> body, store |-> store, key |-> key, hit |-> hit,
     kind |-> kind, ident |-> ident, lookups |-> lookups, fetches |-> fetches]

\* no cache key: the request ended before it computed one
NoKey == << >>

\* except NorthHertsBinCollectionError: 400; except Exception: 500
StatusOf(ret) == IF ret.exc = "NorthHertsBinCollectionError" THEN 400 ELSE 500

AddressesKey(postcode) == <<"addresses:">> \o postcode

\* lines 149-157 of get_addresses, for what lookup_addresses did
AddressesLookedUp(addresses, store, cache_key, t) ==
    IF addresses.ok
    THEN Handled(200, List([i \in 1..Len(addresses.val) |-> AddressToDict(addresses.val[i])]),
                 SimpleCache_set(store, cache_key,
                     List([i \in 1..Len(addresses.val) |-> AddressToDict(addresses.val[i])]), t),
                 cache_key, FALSE, "none", None, 1, 0)
    ELSE Handled(StatusOf(addresses), None, store, cache_key, FALSE,
                 addresses.kind, None, 1, 0)

\* lines 146-157 of get_addresses, for what cache.get returned
AddressesCached(cached, cache_key, t, postcode, resp) ==
    IF Truthy(cached.ret)
    THEN Handled(200, cached.ret, cached.store, cache_key, TRUE, "none", None, 0, 0)
    ELSE AddressesLookedUp(LookupAddresses(postcode, resp), cached.store, cache_key, t)

\* GET /api/addresses
HandleGetAddresses(c, t, postcode, resp) ==
    AddressesCached(SimpleCache_get(c, AddressesKey(postcode), t),
                    AddressesKey(postcode), t, postcode, resp)

\* f"collections:{uprn or f'{postcode}:{house_number}'}"
CollectionsKey(uprn, postcode, house_number) ==
    <<"collections:">> \o (IF Truthy(uprn) THEN uprn.v
                           ELSE postcode.v \o <<":">> \o house_number.v)

RECURSIVE FirstNotBefore(_, _, _)
\* the first collection with collection_date >= now, as a dict; else None
FirstNotBefore(collections, i, t) ==
    IF i > Len(collections) THEN None
    ELSE IF ~DtLess(collections[i].collection_date, NowDateTime(t))
         THEN Dict(BinToDict(collections[i], t))
         ELSE FirstNotBefore(collections, i + 1, t)

\* lines 196-211: the response body
CollectionsResult(resolved_uprn, collections, t) ==
    Dict([uprn |-> IF Truthy(resolved_uprn) THEN resolved_uprn.v
                   ELSE <<"u", "n", "k", "n", "o", "w", "n">>,
          collections |-> [i \in 1..Len(collections) |-> BinToDict(collections[i], t)],
          next_collection |-> FirstNotBefore(collections, 1, t),
          last_updated |-> IsoFormat(NowDateTime(t))])

\* lines 196-214, for the identifier the handler resolved
CollectionsStored(result, store, cache_key, t, ident, lookups, fetches) ==
    Handled(200, result, SimpleCache_set(store, cache_key, result, t),
            cache_key, FALSE, "none", ident, lookups, fetches)

\* cache.set moved above the handler's own find_uprn: the entry is written
\* before the request is known to succeed
CollectionsResolvedSetFirst(found, out, store, cache_key, t, lookups) ==
    IF ~found.ok
    THEN Handled(StatusOf(found), None,
                 SimpleCache_set(store, cache_key, CollectionsResult(None, out.ret.val, t), t),
                 cache_key, FALSE, found.kind, out.ident, lookups, out.fetches)
    ELSE CollectionsStored(CollectionsResult(found.val, out.ret.val, t), store, cache_key, t,
                           out.ident, lookups, out.fetches)

\* lines 191-219, for what the handler's own find_uprn did
CollectionsResolved(found, out, store, cache_key, t, lookups) ==
    IF ~found.ok
    THEN Handled(StatusOf(found), None, store, cache_key, FALSE,
                 found.kind, out.ident, lookups, out.fetches)
    ELSE CollectionsStored(CollectionsResult(found.val, out.ret.val, t), store, cache_key, t,
                           out.ident, lookups, out.fetches)

\* lines 184-219, for what bin_client.get_collections did
CollectionsFetched(out, store, cache_key, t, uprn, postcode, house_number, addrResp2) ==
    IF ~out.ret.ok
    THEN Handled(StatusOf(out.ret), None, store, cache_key, FALSE,
                 out.ret.kind, out.ident, out.lookups, out.fetches)
    ELSE IF Truthy(uprn)
    THEN CollectionsResolved(Return(uprn), out, store, cache_key, t, out.lookups)
    ELSE CollectionsResolved(FindUprn(postcode.v, house_number.v, addrResp2), out, store,
                             cache_key, t, out.lookups + 1)

\* lines 181-219, for what cache.get returned
CollectionsCached(cached, cache_key, t, uprn, postcode, house_number, addrResp, collResp, addrResp2) ==
    IF Truthy(cached.ret)
    THEN Handled(200, cached.ret, cached.store, cache_key, TRUE, "none", None, 0, 0)
    ELSE CollectionsFetched(GetCollections(uprn, postcode, house_number, addrResp, collResp),
                            cached.store, cache_key, t, uprn, postcode, house_number, addrResp2)

\* GET /api/collections; addrResp and collResp answer the client's calls,
\* addrResp2 the handler's own find_uprn
HandleGetCollections(c, t, uprn, postcode, house_number, addrResp, collResp, addrResp2) ==
    IF ~Truthy(uprn) /\ ~(Truthy(postcode) /\ Truthy(house_number))
    THEN Handled(400, None, c, NoKey, FALSE, "InvalidRequest", None, 0, 0)
    ELSE CollectionsCached(
            SimpleCache_get(c, CollectionsKey(uprn, postcode, house_number), t),
            CollectionsKey(uprn, postcode, house_number), t,
            uprn, postcode, house_number, addrResp, collResp, addrResp2)

-----------------------------------------------------------------------------
(* The service: requests to the handlers over the shared cache.  A handler   *)
(* is an async function that never awaits between its cache.get and its    *)
(* cache.set (the upstream calls block), so the event loop runs the         *)
(* handlers one at a time and each request is one step.  The upstream is    *)
(* the environment: each request draws the answers it gets.  /api/next,     *)
(* /api/homeassistant and /api/sensor/next call get_collections and reshape *)
(* its result; on the cache they act as GetCollectionsRequest does.         *)

GoodItem == Item(Str(<<"1", "2">>), Str(<<"1", " ", "S">>), Absent, Absent)
BadItem == Item(Str(<<"x", "7">>), Str(<<"1", " ", "S">>), Absent, Absent)

\* the answers to the client's lookup, and those to the handler's own
HttpAddressResponses ==
    { UpstreamFailure,
      UpstreamBody([addresses |-> List(<<>>)]),
      UpstreamBody([addresses |-> List(<<GoodItem>>)]),
      UpstreamBody([addresses |-> List(<<BadItem>>)]) }

HttpAddressResponses2 == HttpAddressResponses \ { UpstreamBody([addresses |-> List(<<BadItem>>)]) }

HttpPayloads ==
    { Payload({1, 2}, <<Container(Str(Date13), Str(<<"R">>)), Container(Str(Date06), Absent)>>),
      Payload({3}, [i \in {3} |-> Container(Str(Date06), None)]) }

HttpCollectionResponses ==
    { UpstreamFailure } \cup { UpstreamBody([wasteCollectionDates |-> Dict(w)]) : w \in HttpPayloads }

Query(uprn, postcode, house_number) ==
    [uprn |-> uprn, postcode |-> postcode, house_number |-> house_number]

HttpUprns == { Str(<<"1", "2", "3">>), Str(<<"1", "2", "\n">>), Str(<<"x", "7">>) }

CollectionQueries ==
    { Query(u, None, None) : u \in HttpUprns }
      \cup { Query(None, None, None),
             Query(None, Str(<<"s", "g", " ", "1">>), Str(<<"1">>)),
             Query(None, Str(<<"S", "G", "1">>), Str(<<" ", "1", " ">>)) }

\* the answers of the address endpoint to a request: S when the request can
\* reach a lookup, and otherwise the one answer that is never read
AnswersTo(q, S) ==
    IF ~Truthy(q.uprn) /\ Truthy(q.postcode) /\ Truthy(q.house_number)
    THEN S ELSE { UpstreamFailure }

Init ==
    /\ cache = EmptyCache
    /\ now = 0
    /\ written = << >>
    /\ storedBy = << >>
    /\ obs = NoObs
    /\ nreq = 0

\* the request's parameters for each key the request left in the cache
StoredBy(h, op, params) ==
    [k \in DOMAIN h.store |->
        IF k = h.key /\ h.status = 200 /\ ~h.hit THEN [op |-> op, params |-> params]
        ELSE IF k \in DOMAIN storedBy THEN storedBy[k]
        ELSE [op |-> "none", params |-> None]]

Observed(h, op, params) ==
    [op |-> op, params |-> params, at |-> now, status |-> h.status, body |-> h.body,
     key |-> h.key, hit |-> h.hit, kind |-> h.kind, ident |-> h.ident,
     lookups |-> h.lookups, fetches |-> h.fetches]

\* the handler's effect h on the state
Serve(h, op, params) ==
    /\ nreq < MaxRequests
    /\ cache' = h.store
    /\ storedBy' = StoredBy(h, op, params)
    /\ obs' = Observed(h, op, params)
    /\ nreq' = nreq + 1
    /\ UNCHANGED <<now, written>>

GetAddresses(postcode, resp) ==
    /\ nreq < MaxRequests
    /\ Serve(HandleGetAddresses(cache, now, postcode, resp),
             "addresses", [postcode |-> Str(postcode)])

GetCollectionsRequest(q, addrResp, collResp, addrResp2) ==
    /\ nreq < MaxRequests
    /\ Serve(HandleGetCollections(cache, now, q.uprn, q.postcode, q.house_number,
                                  addrResp, collResp, addrResp2),
             "collections", q)

\* POST /api/cache/clear
ClearCache ==
    /\ cache # EmptyCache
    /\ cache' = SimpleCache_clear(cache)
    /\ storedBy' = << >>
    /\ obs' = [op |-> "clear"]
    /\ UNCHANGED <<now, written, nreq>>

Next ==
    \/ \E postcode \in Postcodes, resp \in HttpAddressResponses2 : GetAddresses(postcode, resp)
    \/ \E q \in CollectionQueries, collResp \in HttpCollectionResponses :
          \E addrResp \in AnswersTo(q, HttpAddressResponses),
             addrResp2 \in AnswersTo(q, HttpAddressResponses2) :
               GetCollectionsRequest(q, addrResp, collResp, addrResp2)
    \/ ClearCache
    \/ Tick

Spec == Init /\ [][Next]_vars

IsRequest == obs.op \in {"addresses", "collections"}

\* two requests to one endpoint that are semantically equal: the same
\* identifier, or the same postcode and house number after normalization
\* (postcode uppercased, trimmed, spaces removed; house number lower-cased
\* and trimmed)
SameQuery(op, p, q) ==
    IF op = "addresses"
    THEN NormalizePostcode(p.postcode.v) = NormalizePostcode(q.postcode.v)
    ELSE \/ Truthy(p.uprn) /\ Truthy(q.uprn) /\ p.uprn = q.uprn
         \/ /\ ~Truthy(p.uprn) /\ ~Truthy(q.uprn)
            /\ NormalizePostcode(p.postcode.v) = NormalizePostcode(q.postcode.v)
            /\ Strip(Lower(p.house_number.v)) = Strip(Lower(q.house_number.v))

\* C2: semantically equal queries are stored and looked up under one and the
\* same cache key: the key a request looks up is the key of every entry that a
\* semantically equal request stored.
C2_EqualQueriesOneKey ==
    (IsRequest /\ obs.key # NoKey) =>
        \A k \in DOMAIN storedBy :
            (storedBy[k].op = obs.op /\ SameQuery(obs.op, storedBy[k].params, obs.params))
                => k = obs.key

\* C3: a request whose key has an entry in the cache that is younger than the
\* ttl is answered from the cache, with the stored result whatever it is, and
\* sends nothing upstream.
C3_FreshEntryAnswers ==
    [][ (/\ nreq' = nreq + 1
         /\ obs'.key # NoKey
         /\ obs'.key \in DOMAIN cache
         /\ now - cache[obs'.key].timestamp < TTL)
        => (/\ obs'.lookups = 0
            /\ obs'.fetches = 0
            /\ obs'.hit
            /\ obs'.body = cache[obs'.key].value) ]_vars

AllDigits(s) == Len(s) >= 1 /\ \A i \in 1..Len(s) : s[i] \in {"0", "1", "2", "3", "4", "5", "6", "7", "8", "9"}

\* C7: a request that gets as far as an identifier (given, or resolved from
\* postcode and house number) fails with InvalidIdentifier, and fetches nothing,
\* when the identifier is not a non-empty string of digits only; with digits
\* only it goes on to the fetch.
C7_OnlyDigitsFetched ==
    (obs.op = "collections" /\ Truthy(obs.ident)) =>
        IF AllDigits(obs.ident.v)
        THEN obs.kind # "InvalidIdentifier" /\ obs.fetches = 1
        ELSE obs.kind = "InvalidIdentifier" /\ obs.fetches = 0

\* C9: InvalidRequest, InvalidIdentifier and AddressNotFound are answered with
\* 400, and UpstreamUnavailable with a 5xx status, never 400.
C9_StatusByKind ==
    IsRequest =>
        /\ obs.kind \in {"InvalidRequest", "InvalidIdentifier", "AddressNotFound"}
              => obs.status = 400
        /\ obs.kind = "UpstreamUnavailable" => obs.status \in 500..599

\* a request failed: it was answered with an error status
Failed(o) == o.op \in {"addresses", "collections"} /\ o.status # 200

\* every entry of the cache after a request is an entry from before it, left
\* as it was, or the result of this request, stored under its key when it
\* completed successfully past the cache
OnlySuccessWrites ==
    \A k \in DOMAIN cache' :
        \/ k \in DOMAIN cache /\ cache'[k] = cache[k]
        \/ /\ obs'.status = 200 /\ ~obs'.hit /\ k = obs'.key
           /\ cache'[k].value = obs'.body

\* this request has the key of the failed request before it
FollowsFailure == Failed(obs) /\ obs.key # NoKey /\ obs'.key = obs.key

====
